---------------------------- MODULE Spec2Model ----------------------------
(***************************************************************************)
(* longest_match of match_p.h: the hash-chain walk that looks for the      *)
(* longest earlier occurrence of the string at strstart.  One call is one  *)
(* behaviour: Call runs the set-up of the function, then every action is   *)
(* one pass through the body of the do-while loop, the loop condition and, *)
(* when the loop is left, the final clamp and return included.             *)
(***************************************************************************)
EXTENDS Integers, Sequences, FiniteSets, TLC

(* ------------------------------ constants ------------------------------ *)
MAX_MATCH == 258
MIN_LOOKAHEAD == 262
TRIGGER_LEVEL == 5
\* unsigned chain_length is 32 bits wide.  TLC's numbers stop short of 2^32,
\* so the counter is kept as its two 16-bit halves <<high, low>>.
HALF == 65536

(* -------------------------------- bounds ------------------------------- *)
\* largest strstart of a call on an overlapping match (InitCompare)
MaxStrstart == 3
\* candidates of a chain walk (InitWalk), and the bytes from one to the next
NumCand == 2
BlockLen == 5
\* longest period of the repeating tail of a window
MaxPeriod == 2
\* loop passes after which a call is no longer followed
MaxSteps == 6

\* The code only tests bytes for equality: two values give both outcomes.
Byte == {0, 1}
\* strstart of a chain walk: after position 0 and the candidates' blocks
WalkStart == 1 + NumCand * BlockLen
WindowSize == WalkStart + MIN_LOOKAHEAD
\* no length computed, no byte changed
NoLen == 0 - 1
NoFlip == 0 - 1

VARIABLES
  window, prev, w_mask, max_dist,
  strstart, prev_length, lookahead, max_chain_length, good_match,
  s_nice_match, level, head_match, match_start,
  cur_match, best_len, chain_length, nice_match, limit, scan_end1, scan_end,
  scan_start, pc, ret, exit, trace, variant, results

\* head_match is the cur_match argument of the call; s_nice_match is
\* s->nice_match, nice_match the local of that name
input == <<window, prev, w_mask, max_dist, strstart, prev_length, lookahead,
           max_chain_length, good_match, s_nice_match, level, head_match>>
locals == <<cur_match, best_len, chain_length, nice_match, limit,
            scan_end1, scan_end, scan_start>>
\* variant is the longest_match the build has selected: std1_longest_match,
\* std2_longest_match, or std3_longest_match with the compiler's
\* __builtin_ctzl ("std3") or with the one defined for _MSC_VER ("std3_msc");
\* results holds what the variants run before it returned on this input
build == <<variant, results>>
vars == <<input, build, match_start, locals, pc, ret, exit, trace>>

(* ------------------------------- windows ------------------------------- *)
\* A window: HeadLen free bytes, then the last p of them repeated to the end
\* of the buffer; the byte at f is changed ("flip"), or every byte from f on
\* ("step").
HeadLen == MaxStrstart + 4
Repeat(head, p, i) == head[HeadLen - p + ((i - HeadLen) % p)]
MkWindow(head, p, f, kind) ==
  [i \in 0..(WindowSize - 1) |->
     LET b == IF i < HeadLen THEN head[i] ELSE Repeat(head, p, i)
     IN  IF (kind = "flip" /\ i = f) \/ (kind = "step" /\ f # NoFlip /\ i >= f)
           THEN 1 - b ELSE b]
\* Exchanging the two byte values changes no comparison: the first byte is 0.
Heads == {h \in [0..(HeadLen - 1) -> Byte] : h[0] = 0}
\* windows whose first bytes are free: matches of every short length
ShortWindows == {MkWindow(h, 1, NoFlip, "flip") : h \in Heads}
\* offsets from strstart of the changed byte: around the first bytes compared,
\* around the first group of eight, and around MAX_MATCH
FlipOffsets == {2, 3, 4, 5, 10, 11, 12, MAX_MATCH - 1, MAX_MATCH}
\* windows of period p, changed at one place: matches of every long length
LongWindows(ss) ==
  {MkWindow([i \in 0..(HeadLen - 1) |-> IF i % p = p - 1 THEN b ELSE 0],
            p, f, kind) :
     p \in 1..MaxPeriod, b \in Byte, kind \in {"flip", "step"},
     f \in {NoFlip} \cup {ss + o : o \in FlipOffsets}}

Min(S) == CHOOSE x \in S : \A y \in S : x <= y
Max(S) == CHOOSE x \in S : \A y \in S : x >= y

(* --------------------------- the code, as operators -------------------- *)
\* x & w_mask, w_mask being 2^k - 1
And(x, m) == x % (m + 1)
Uint(n) == <<(n \div HALF) % HALF, n % HALF>>
\* --chain_length, modulo 2^32
Dec(cl) ==
  IF cl[2] > 0 THEN <<cl[1], cl[2] - 1>> ELSE <<(cl[1] - 1) % HALF, HALF - 1>>
\* chain_length >>= 2
Shr2(cl) == <<cl[1] \div 4, (cl[1] % 4) * (HALF \div 4) + (cl[2] \div 4)>>
NonZero(cl) == cl # <<0, 0>>

\* mutant: the search starts from 1 whatever the caller already has
InitBestLenOne(pl) == 1
InitBestLen(pl) == IF pl # 0 THEN pl ELSE 1
InitChain(mcl, bl, gm) == IF bl >= gm THEN Shr2(Uint(mcl)) ELSE Uint(mcl)
NiceMatch(nm, la) == IF nm > la THEN la ELSE nm
Limit(ss, md) == IF ss > md THEN ss - md ELSE 0
\* mutant: the clamp to lookahead forgotten
ResultUnclamped(bl, la) == bl
Result(bl, la) == IF bl <= la THEN bl ELSE la

Strend == strstart + MAX_MATCH

\* mutant: the first byte is not compared
Std1RejectsNoFirst(cm, bl) ==
  \/ window[cm + bl] # scan_end
  \/ window[cm + bl - 1] # scan_end1
  \/ window[cm + 1] # window[strstart + 1]

\* mutant: the probe reads one byte past best_len
Std1RejectsPast(cm, bl) ==
  \/ window[cm + bl + 1] # scan_end
  \/ window[cm + bl - 1] # scan_end1
  \/ window[cm] # window[strstart]
  \/ window[cm + 1] # window[strstart + 1]

Std1Rejects(cm, bl) ==
  \/ window[cm + bl] # scan_end
  \/ window[cm + bl - 1] # scan_end1
  \/ window[cm] # window[strstart]
  \/ window[cm + 1] # window[strstart + 1]

\* the do { } while (*++scan == *++match && ... && scan < strend) of std1.
\* One turn is one group of eight comparisons: the group stops at its first
\* unequal pair, scan and match incremented up to it (Std1Group is how far;
\* 9 when the eight pairs are equal); a group of eight equal pairs is
\* followed by the test scan < strend.
Std1Group(scan, match) ==
  IF window[scan + 1] # window[match + 1] THEN 1
  ELSE IF window[scan + 2] # window[match + 2] THEN 2
  ELSE IF window[scan + 3] # window[match + 3] THEN 3
  ELSE IF window[scan + 4] # window[match + 4] THEN 4
  ELSE IF window[scan + 5] # window[match + 5] THEN 5
  ELSE IF window[scan + 6] # window[match + 6] THEN 6
  ELSE IF window[scan + 7] # window[match + 7] THEN 7
  ELSE IF window[scan + 8] # window[match + 8] THEN 8
  ELSE 9

\* mutant: the test after a group of eight is scan <= strend
RECURSIVE Std1ScanLoopLate(_, _)
Std1ScanLoopLate(scan, match) ==
  LET n == Std1Group(scan, match) IN
  IF n <= 8 THEN scan + n
  ELSE IF scan + 8 <= Strend THEN Std1ScanLoopLate(scan + 8, match + 8)
  ELSE scan + 8

RECURSIVE Std1ScanLoop(_, _)
Std1ScanLoop(scan, match) ==
  LET n == Std1Group(scan, match) IN
  IF n <= 8 THEN scan + n
  ELSE IF scan + 8 < Strend THEN Std1ScanLoop(scan + 8, match + 8)
  ELSE scan + 8

\* mutant: the length is taken from the last byte of the string, not its end
Std1LenShort(cm) ==
  MAX_MATCH - 1 - (Strend - Std1ScanLoop(strstart + 2, cm + 2))
Std1Len(cm) == MAX_MATCH - (Strend - Std1ScanLoop(strstart + 2, cm + 2))

\* mutant: an equally long match replaces the one held
LongerOrEqual(len, bl) == len >= bl
Longer(len, bl) == len > bl
\* mutant: a match of exactly nice_match does not stop the walk
NiceEnoughStrict(len, nm) == len > nm
NiceEnough(len, nm) == len >= nm
\* mutant: the stop also taken at TRIGGER_LEVEL itself
LowLevelInclusive(lv) == lv <= TRIGGER_LEVEL
LowLevel(lv) == lv < TRIGGER_LEVEL
\* line 155: (cur_match = prev[cur_match & wmask]) > limit
\* mutant: the walk goes on to the entry at limit itself
InRangeInclusive(next, lim) == next >= lim
InRange(next, lim) == next > lim
\* line 155: && --chain_length
BudgetLeft(cl) == NonZero(Dec(cl))
\* mutant: a while loop, the head tested against limit before the first pass
LoopEnteredTested(cm, lim) == cm > lim
\* line 90: do { -- the body runs once before cur_match is tested
LoopEntered(cm, lim) == TRUE

(* std2: the 16-bit comparison *)
Strend2 == strstart + MAX_MATCH - 1
\* a uint16_t filled by memcpy: the two bytes at p
Pair(p) == <<window[p], window[p + 1]>>
Std2Rejects(cm, bl) == Pair(cm + bl - 1) # scan_end \/ Pair(cm) # scan_start

\* lines 250-280: one turn of the loop is four pairs; the loop breaks at the
\* first unequal pair with scan at that pair (Std2Group is how far from the
\* start of the turn; 8 when the four pairs are equal)
Std2Group(scan, match) ==
  IF Pair(match) # Pair(scan) THEN 0
  ELSE IF Pair(match + 2) # Pair(scan + 2) THEN 2
  ELSE IF Pair(match + 4) # Pair(scan + 4) THEN 4
  ELSE IF Pair(match + 6) # Pair(scan + 6) THEN 6
  ELSE 8

RECURSIVE Std2ScanLoop(_, _)
Std2ScanLoop(scan, match) ==
  LET n == Std2Group(scan, match) IN
  IF n < 8 THEN scan + n
  ELSE IF scan + 8 < Strend2 THEN Std2ScanLoop(scan + 8, match + 8)
  ELSE scan + 8

\* lines 247-289
Std2Len(cm) ==
  LET scan == Std2ScanLoop(strstart + 1, cm + 1)
      match == cm + (scan - strstart)
      last == IF window[scan] = window[match] THEN scan + 1 ELSE scan
  IN  (MAX_MATCH - 1) - (Strend2 - last)

(* std3: the 64-bit comparison *)
\* A uint32_t read through a cast pointer at p.  A byte below the window is
\* outside the buffer: the read is undefined and gives any value.
Word(p) ==
  {w \in [0..3 -> Byte] : \A i \in 0..3 : p + i >= 0 => w[i] = window[p + i]}
\* line 344
Std3InitBestLen(pl) == pl
\* line 390, m and w the words read at match + best_len - 3 and at match
Std3Rejects(m, w) == m # scan_end \/ w # scan_start

Std3Builds == {"std3", "std3_msc"}
\* __builtin_ctzl(xor) / 8 for an xor whose lowest non-zero byte is byte i
\* (the bytes of a word in memory order, lowest first).  The function of
\* lines 323-328 takes an unsigned long, 32 bits wide there, and answers 32
\* when these are zero.
Ctzl(i) == IF variant = "std3_msc" /\ i >= 4 THEN 4 ELSE i

\* lines 404-417: one turn of the loop is eight bytes; Std3Group is what is
\* added to scan at the first unequal byte, 8 when the eight are equal
Std3Group(scan, match) ==
  IF window[scan] # window[match] THEN Ctzl(0)
  ELSE IF window[scan + 1] # window[match + 1] THEN Ctzl(1)
  ELSE IF window[scan + 2] # window[match + 2] THEN Ctzl(2)
  ELSE IF window[scan + 3] # window[match + 3] THEN Ctzl(3)
  ELSE IF window[scan + 4] # window[match + 4] THEN Ctzl(4)
  ELSE IF window[scan + 5] # window[match + 5] THEN Ctzl(5)
  ELSE IF window[scan + 6] # window[match + 6] THEN Ctzl(6)
  ELSE IF window[scan + 7] # window[match + 7] THEN Ctzl(7)
  ELSE 8

RECURSIVE Std3ScanLoop(_, _)
Std3ScanLoop(scan, match) ==
  LET n == Std3Group(scan, match) IN
  IF n < 8 THEN scan + n
  ELSE IF scan + 8 < Strend THEN Std3ScanLoop(scan + 8, match + 8)
  ELSE scan + 8

\* lines 403-424
Std3Len(cm) ==
  LET scan == Std3ScanLoop(strstart + 4, cm + 4)
      capped == IF scan > Strend THEN Strend ELSE scan
  IN  MAX_MATCH - (Strend - capped)

(* the window indices std1 reads *)
\* lines 86-87: scan[best_len-1], scan[best_len]
Std1SetupReads ==
  {strstart + InitBestLen(prev_length) - 1, strstart + InitBestLen(prev_length)}

\* lines 106-109: the four comparisons in order, up to the first that fails
Std1ProbeReads(cm, bl) ==
  {cm + bl} \cup
  IF window[cm + bl] # scan_end THEN {}
  ELSE {cm + bl - 1} \cup
    IF window[cm + bl - 1] # scan_end1 THEN {}
    ELSE {cm, strstart} \cup
      IF window[cm] # window[strstart] THEN {}
      ELSE {cm + 1, strstart + 1}

\* scan when the loop of lines 127-132 is left
Std1ScanEnd(cm) == Std1ScanLoop(strstart + 2, cm + 2)

\* lines 119-132: *scan and *match of the assertion, then *++scan and
\* *++match of every comparison made
Std1ScanReads(cm) ==
  LET end == Std1ScanEnd(cm) IN
  ((strstart + 2)..end) \cup ((cm + 2)..(end - (strstart - cm)))

\* lines 144-145: scan[best_len-1], scan[best_len] after an improvement that
\* is not nice enough
Std1UpdateReads(len, bl) ==
  IF Longer(len, bl) /\ ~NiceEnough(len, nice_match)
    THEN {strstart + len - 1, strstart + len} ELSE {}

\* lines 94-145: the window indices one pass on candidate cm reads
Std1PassReads(cm, bl) ==
  Std1ProbeReads(cm, bl) \cup
  IF Std1Rejects(cm, bl) THEN {}
  ELSE Std1ScanReads(cm) \cup Std1UpdateReads(Std1Len(cm), bl)

(* -------------------------------- Init --------------------------------- *)
\* the candidates of a chain walk, BlockLen bytes apart
CandPos(k) == 1 + (k - 1) * BlockLen
\* the changed byte of a block: the first byte, the first byte the comparison
\* looks at, or none
Flips == {0, 3, BlockLen}
\* A window of equal bytes, but for one byte in the block of each candidate k:
\* the byte at offset fl[k] (none when fl[k] = BlockLen).  The string at a
\* candidate then differs from the string at WalkStart exactly at the changed
\* bytes of its own and the following blocks.
BlockWindows ==
  {[i \in 0..(WindowSize - 1) |->
      IF \E k \in 1..NumCand : fl[k] < BlockLen /\ i = CandPos(k) + fl[k]
        THEN 1 ELSE 0] : fl \in [1..NumCand -> Flips]}

\* the places a chain entry points at: index 0, a candidate, or strstart
Nodes == {0} \cup {CandPos(k) : k \in 1..NumCand}
Links == Nodes \cup {WalkStart}
\* the smallest 2^k - 1 that holds every position below strstart
WMask(ss) == Min({m \in {3, 7, 15, 31, 63} : m >= ss})

\* The nodes a walk from cm reads the link of when nothing but the chain
\* ends it
RECURSIVE Read(_, _, _, _)
Read(nxt, lim, cm, seen) ==
  IF cm >= WalkStart \/ cm \in seen THEN seen
  ELSE IF nxt[cm] > lim THEN Read(nxt, lim, nxt[cm], seen \cup {cm})
  ELSE seen \cup {cm}

\* the chains from cm: the links the walk cannot read are 0
Chains(lim, cm) ==
  {nxt \in [Nodes -> Links] :
     \A j \in Nodes \ Read(nxt, lim, cm, {}) : nxt[j] = 0}

Quiet ==
  /\ match_start = 0
  /\ cur_match = head_match
  /\ best_len = 0 /\ chain_length = Uint(0) /\ nice_match = 0 /\ limit = 0
  /\ scan_end1 = 0 /\ scan_end = 0 /\ scan_start = 0
  /\ variant = "std1" /\ results = <<>>
  /\ pc = "call" /\ ret = 0 /\ exit = "none" /\ trace = <<>>

\* prev_length, lookahead, s_nice_match, max_chain_length, level of a call
Profile(pl, la, nm, mcl, lv) ==
  /\ prev_length = pl /\ lookahead = la /\ s_nice_match = nm
  /\ max_chain_length = mcl /\ level = lv
  /\ good_match = 2

\* every window, chains of one or two candidates: the comparison, the clamp
InitCompare ==
  /\ strstart \in 2..MaxStrstart
  /\ window \in ShortWindows \cup LongWindows(strstart)
  /\ w_mask = WMask(strstart)
  /\ max_dist = MaxStrstart
  /\ head_match \in 1..(strstart - 1)
  /\ \E nxt \in 0..(strstart - 1) : prev = [j \in 0..w_mask |-> nxt]
  /\ \E pl \in {0, 1, 2, 3, 5}, la \in {2, MIN_LOOKAHEAD} :
       \/ Profile(pl, la, MAX_MATCH, 4, TRIGGER_LEVEL)
       \/ Profile(pl, la, 3, 12, TRIGGER_LEVEL - 1)
       \/ Profile(pl, MIN_LOOKAHEAD, MAX_MATCH + 1, 4, TRIGGER_LEVEL)
       \/ /\ pl = 5
          /\ \E long \in {MAX_MATCH - 1, MAX_MATCH} :
               Profile(long, MIN_LOOKAHEAD, MAX_MATCH + 1, 4, TRIGGER_LEVEL)

\* every chain over candidates that do not overlap: the walk, its budget
\* and its early stops; with the first candidate at MAX_DIST exactly, or all
\* of them nearer
InitWalk ==
  /\ strstart = WalkStart
  /\ window \in BlockWindows
  /\ w_mask = WMask(WalkStart)
  /\ max_dist \in {WalkStart - 1, WalkStart}
  /\ head_match \in Links
  /\ \E nxt \in Chains(Limit(strstart, max_dist), head_match) :
       prev = [j \in 0..w_mask |-> IF j \in Nodes THEN nxt[j] ELSE 0]
  /\ \/ Profile(1, MIN_LOOKAHEAD, MAX_MATCH, 4, TRIGGER_LEVEL)
     \/ /\ max_dist = WalkStart
        /\ \/ \E pl \in {1, 2}, mcl \in {1, 8} :
                Profile(pl, MIN_LOOKAHEAD, MAX_MATCH, mcl, TRIGGER_LEVEL)
           \/ Profile(2, MIN_LOOKAHEAD, MAX_MATCH, 4, TRIGGER_LEVEL)
           \/ Profile(1, MIN_LOOKAHEAD, MAX_MATCH, 4, TRIGGER_LEVEL - 1)
           \/ Profile(1, MIN_LOOKAHEAD, 3, 4, TRIGGER_LEVEL)
           \/ Profile(1, 2, MAX_MATCH, 4, TRIGGER_LEVEL)
           \/ Profile(MAX_MATCH, MIN_LOOKAHEAD, MAX_MATCH + 1, 8, TRIGGER_LEVEL)

Init == (InitCompare \/ InitWalk) /\ Quiet

(* ------------------------------- actions ------------------------------- *)
\* leaving the loop, for the reason why: lines 157-159
Leave(bl, why) ==
  /\ pc' = "done"
  /\ exit' = why
  /\ ret' = Result(bl, lookahead)

\* lines 67-90: the set-up, and the entry into the loop
Call ==
  /\ pc = "call" /\ variant = "std1"
  /\ best_len' = InitBestLen(prev_length)
  /\ chain_length' = InitChain(max_chain_length, best_len', good_match)
  /\ nice_match' = NiceMatch(s_nice_match, lookahead)
  /\ limit' = Limit(strstart, max_dist)
  /\ scan_end1' = window[strstart + best_len' - 1]
  /\ scan_end' = window[strstart + best_len']
  /\ IF LoopEntered(cur_match, limit')
       THEN pc' = "loop" /\ ret' = ret /\ exit' = exit
       ELSE Leave(best_len', "limit")
  /\ UNCHANGED <<input, build, match_start, cur_match, scan_start, trace>>

\* line 155, then the next pass or the return
Advance(bl) ==
  LET next == prev[And(cur_match, w_mask)] IN
  /\ cur_match' = next
  /\ IF ~InRange(next, limit)
       THEN chain_length' = chain_length /\ Leave(bl, "limit")
       ELSE /\ chain_length' = Dec(chain_length)
            /\ IF BudgetLeft(chain_length)
                 THEN pc' = "loop" /\ ret' = ret /\ exit' = exit
                 ELSE Leave(bl, "budget")

Pass(len, wrote) ==
  trace' = Append(trace, [cm |-> cur_match, len |-> len, best |-> best_len,
                          wrote |-> wrote])

\* lines 91-93
Std1Future ==
  /\ pc = "loop" /\ variant = "std1" /\ Len(trace) < MaxSteps
  /\ cur_match >= strstart
  /\ Leave(best_len, "future")
  /\ UNCHANGED <<input, build, match_start, locals, trace>>

\* lines 106-110: the cheap rejection, continue
Std1Skip ==
  /\ pc = "loop" /\ variant = "std1" /\ Len(trace) < MaxSteps
  /\ cur_match < strstart
  /\ Std1Rejects(cur_match, best_len)
  /\ Advance(best_len)
  /\ Pass(NoLen, FALSE)
  /\ UNCHANGED <<input, build, match_start, best_len, nice_match, limit,
                 scan_end1, scan_end, scan_start>>

\* lines 139-145, len < nice_match
Std1Better(len) ==
  /\ Longer(len, best_len)
  /\ ~NiceEnough(len, nice_match)
  /\ match_start' = cur_match
  /\ best_len' = len
  /\ scan_end1' = window[strstart + len - 1]
  /\ scan_end' = window[strstart + len]
  /\ Advance(len)
  /\ Pass(len, TRUE)
  /\ UNCHANGED <<input, build, nice_match, limit, scan_start>>

\* lines 139-143, len >= nice_match: break
Std1Nice(len) ==
  /\ Longer(len, best_len)
  /\ NiceEnough(len, nice_match)
  /\ match_start' = cur_match
  /\ best_len' = len
  /\ Leave(len, "nice")
  /\ Pass(len, TRUE)
  /\ UNCHANGED <<input, build, cur_match, chain_length, nice_match, limit,
                 scan_end1, scan_end, scan_start>>

\* lines 146-154 at level >= TRIGGER_LEVEL
Std1NoBetter(len) ==
  /\ ~Longer(len, best_len)
  /\ ~LowLevel(level)
  /\ Advance(best_len)
  /\ Pass(len, FALSE)
  /\ UNCHANGED <<input, build, match_start, best_len, nice_match, limit,
                 scan_end1, scan_end, scan_start>>

\* lines 146-153 at level < TRIGGER_LEVEL: break
Std1LowStop(len) ==
  /\ ~Longer(len, best_len)
  /\ LowLevel(level)
  /\ Leave(best_len, "low")
  /\ Pass(len, FALSE)
  /\ UNCHANGED <<input, build, match_start, locals>>

\* a candidate the cheap rejection lets through is compared: lines 94-137
Std1Compares ==
  /\ pc = "loop" /\ variant = "std1" /\ Len(trace) < MaxSteps
  /\ cur_match < strstart
  /\ ~Std1Rejects(cur_match, best_len)

Std1BetterStep == Std1Compares /\ LET len == Std1Len(cur_match) IN Std1Better(len)
Std1NiceStep == Std1Compares /\ LET len == Std1Len(cur_match) IN Std1Nice(len)
Std1NoBetterStep ==
  Std1Compares /\ LET len == Std1Len(cur_match) IN Std1NoBetter(len)
Std1LowStopStep ==
  Std1Compares /\ LET len == Std1Len(cur_match) IN Std1LowStop(len)

(* std2 *)
\* lines 187-210
Std2Call ==
  /\ pc = "call" /\ variant = "std2"
  /\ best_len' = InitBestLen(prev_length)
  /\ chain_length' = InitChain(max_chain_length, best_len', good_match)
  /\ nice_match' = NiceMatch(s_nice_match, lookahead)
  /\ limit' = Limit(strstart, max_dist)
  /\ scan_start' = Pair(strstart)
  /\ scan_end' = Pair(strstart + best_len' - 1)
  /\ IF LoopEntered(cur_match, limit')
       THEN pc' = "loop" /\ ret' = ret /\ exit' = exit
       ELSE Leave(best_len', "limit")
  /\ UNCHANGED <<input, build, match_start, cur_match, scan_end1, trace>>

\* line 307: the budget first, then the link
Std2Advance(bl) ==
  /\ chain_length' = Dec(chain_length)
  /\ IF ~BudgetLeft(chain_length)
       THEN cur_match' = cur_match /\ Leave(bl, "budget")
       ELSE LET next == prev[And(cur_match, w_mask)] IN
            /\ cur_match' = next
            /\ IF InRange(next, limit)
                 THEN pc' = "loop" /\ ret' = ret /\ exit' = exit
                 ELSE Leave(bl, "limit")

\* lines 212-214
Std2Future ==
  /\ pc = "loop" /\ variant = "std2" /\ Len(trace) < MaxSteps
  /\ cur_match >= strstart
  /\ Leave(best_len, "future")
  /\ UNCHANGED <<input, build, match_start, locals, trace>>

\* lines 227-234: continue
Std2Skip ==
  /\ pc = "loop" /\ variant = "std2" /\ Len(trace) < MaxSteps
  /\ cur_match < strstart
  /\ Std2Rejects(cur_match, best_len)
  /\ Std2Advance(best_len)
  /\ Pass(NoLen, FALSE)
  /\ UNCHANGED <<input, build, match_start, best_len, nice_match, limit,
                 scan_end1, scan_end, scan_start>>

Std2Compares ==
  /\ pc = "loop" /\ variant = "std2" /\ Len(trace) < MaxSteps
  /\ cur_match < strstart
  /\ ~Std2Rejects(cur_match, best_len)

\* lines 292-297, len < nice_match
Std2BetterStep ==
  /\ Std2Compares
  /\ LET len == Std2Len(cur_match) IN
       /\ Longer(len, best_len)
       /\ ~NiceEnough(len, nice_match)
       /\ match_start' = cur_match
       /\ best_len' = len
       /\ scan_end' = Pair(strstart + len - 1)
       /\ Std2Advance(len)
       /\ Pass(len, TRUE)
  /\ UNCHANGED <<input, build, nice_match, limit, scan_end1, scan_start>>

\* lines 292-296, len >= nice_match: break
Std2NiceStep ==
  /\ Std2Compares
  /\ LET len == Std2Len(cur_match) IN
       /\ Longer(len, best_len)
       /\ NiceEnough(len, nice_match)
       /\ match_start' = cur_match
       /\ best_len' = len
       /\ Leave(len, "nice")
       /\ Pass(len, TRUE)
  /\ UNCHANGED <<input, build, cur_match, chain_length, nice_match, limit,
                 scan_end1, scan_end, scan_start>>

\* lines 298-306 at level >= TRIGGER_LEVEL
Std2NoBetterStep ==
  /\ Std2Compares
  /\ LET len == Std2Len(cur_match) IN
       /\ ~Longer(len, best_len)
       /\ ~LowLevel(level)
       /\ Std2Advance(best_len)
       /\ Pass(len, FALSE)
  /\ UNCHANGED <<input, build, match_start, best_len, nice_match, limit,
                 scan_end1, scan_end, scan_start>>

\* lines 298-305 at level < TRIGGER_LEVEL: break
Std2LowStopStep ==
  /\ Std2Compares
  /\ LET len == Std2Len(cur_match) IN
       /\ ~Longer(len, best_len)
       /\ LowLevel(level)
       /\ Leave(best_len, "low")
       /\ Pass(len, FALSE)
  /\ UNCHANGED <<input, build, match_start, locals>>

(* std3 *)
\* lines 340-375
Std3Call ==
  /\ pc = "call" /\ variant \in Std3Builds
  /\ best_len' = Std3InitBestLen(prev_length)
  /\ chain_length' = InitChain(max_chain_length, prev_length, good_match)
  /\ nice_match' = NiceMatch(s_nice_match, lookahead)
  /\ limit' = Limit(strstart, max_dist)
  /\ scan_start' \in Word(strstart)
  /\ scan_end' \in Word(strstart + best_len' - 3)
  /\ IF LoopEntered(cur_match, limit')
       THEN pc' = "loop" /\ ret' = ret /\ exit' = exit
       ELSE Leave(best_len', "limit")
  /\ UNCHANGED <<input, build, match_start, cur_match, scan_end1, trace>>

\* lines 388-401: the candidate is passed over, and the walk goes on or ends
\* as at line 433
Std3Skip ==
  /\ pc = "loop" /\ variant \in Std3Builds /\ Len(trace) < MaxSteps
  /\ \E m \in Word(cur_match + best_len - 3), w \in Word(cur_match) :
       Std3Rejects(m, w)
  /\ Advance(best_len)
  /\ Pass(NoLen, FALSE)
  /\ UNCHANGED <<input, build, match_start, best_len, nice_match, limit,
                 scan_end1, scan_end, scan_start>>

Std3Compares ==
  /\ pc = "loop" /\ variant \in Std3Builds /\ Len(trace) < MaxSteps
  /\ \E m \in Word(cur_match + best_len - 3), w \in Word(cur_match) :
       ~Std3Rejects(m, w)

\* lines 427-434, len < nice_match
Std3BetterStep ==
  /\ Std3Compares
  /\ LET len == Std3Len(cur_match) IN
       /\ Longer(len, best_len)
       /\ ~NiceEnough(len, nice_match)
       /\ match_start' = cur_match
       /\ best_len' = len
       /\ scan_end' \in Word(strstart + len - 3)
       /\ Advance(len)
       /\ Pass(len, TRUE)
  /\ UNCHANGED <<input, build, nice_match, limit, scan_end1, scan_start>>

\* lines 427-430, len >= nice_match: break
Std3NiceStep ==
  /\ Std3Compares
  /\ LET len == Std3Len(cur_match) IN
       /\ Longer(len, best_len)
       /\ NiceEnough(len, nice_match)
       /\ match_start' = cur_match
       /\ best_len' = len
       /\ Leave(len, "nice")
       /\ Pass(len, TRUE)
  /\ UNCHANGED <<input, build, cur_match, chain_length, nice_match, limit,
                 scan_end1, scan_end, scan_start>>

\* lines 427-434, len <= best_len: the walk goes on at every level
Std3NoBetterStep ==
  /\ Std3Compares
  /\ LET len == Std3Len(cur_match) IN
       /\ ~Longer(len, best_len)
       /\ Advance(best_len)
       /\ Pass(len, FALSE)
  /\ UNCHANGED <<input, build, match_start, best_len, nice_match, limit,
                 scan_end1, scan_end, scan_start>>

(* the variants on one input *)
NextVariant(v) ==
  IF v = "std1" THEN "std2" ELSE IF v = "std2" THEN "std3" ELSE "std3_msc"
\* The build with the next variant selected is called on the state the
\* variant before it was called on.
NextBuild ==
  /\ pc = "done" /\ variant # "std3_msc"
  /\ results' = Append(results, [variant |-> variant, ret |-> ret,
                                 match_start |-> match_start])
  /\ variant' = NextVariant(variant)
  /\ match_start' = 0
  /\ cur_match' = head_match
  /\ best_len' = 0 /\ chain_length' = Uint(0) /\ nice_match' = 0 /\ limit' = 0
  /\ scan_end1' = 0 /\ scan_end' = 0 /\ scan_start' = 0
  /\ pc' = "call" /\ ret' = 0 /\ exit' = "none" /\ trace' = <<>>
  /\ UNCHANGED input

Next ==
  \/ Call
  \/ Std1Future
  \/ Std1Skip
  \/ Std1BetterStep
  \/ Std1NiceStep
  \/ Std1NoBetterStep
  \/ Std1LowStopStep

Spec == Init /\ [][Next]_vars

NextV ==
  \/ Next
  \/ Std2Call
  \/ Std2Future
  \/ Std2Skip
  \/ Std2BetterStep
  \/ Std2NiceStep
  \/ Std2NoBetterStep
  \/ Std2LowStopStep
  \/ Std3Call
  \/ Std3Skip
  \/ Std3BetterStep
  \/ Std3NiceStep
  \/ Std3NoBetterStep
  \/ NextBuild

\* the std2 build called on the state std1 was called on
Std2Build == variant = "std1" /\ NextBuild

Next12 ==
  \/ Next
  \/ Std2Call
  \/ Std2Future
  \/ Std2Skip
  \/ Std2BetterStep
  \/ Std2NiceStep
  \/ Std2NoBetterStep
  \/ Std2LowStopStep
  \/ Std2Build

\* std1, then std2, on the same input
Spec12 == Init /\ [][Next12]_vars

\* std1, std2 and the two builds of std3 called in turn on the same input
SpecV == Init /\ [][NextV]_vars

(* ------------------------------- claims -------------------------------- *)
\* the number of leading equal bytes of the strings at c and at strstart,
\* counted from offset 0 and capped at MAX_MATCH
NaiveLen(c) ==
  IF \A i \in 0..(MAX_MATCH - 1) : window[c + i] = window[strstart + i]
    THEN MAX_MATCH
    ELSE CHOOSE i \in 0..(MAX_MATCH - 1) :
           /\ window[c + i] # window[strstart + i]
           /\ \A j \in 0..(i - 1) : window[c + j] = window[strstart + j]

\* the IN assertions of the header comment
Pre ==
  /\ head_match < strstart
  /\ strstart - head_match <= max_dist
  /\ prev_length >= 1

\* the chain of a conforming caller: every link points to an earlier position
ChainOK == \A j \in 1..(strstart - 1) : prev[And(j, w_mask)] < j

Passes == DOMAIN trace
Compared(k) == trace[k].len # NoLen
\* the hash guarantee, for the candidates the walk has looked at
HashOK ==
  \A k \in Passes :
    LET c == trace[k].cm IN
    (window[c] = window[strstart] /\ window[c + 1] = window[strstart + 1])
      => window[c + 2] = window[strstart + 2]

InvC2 ==
  (pc = "done" /\ prev_length >= 1 /\ HashOK /\ ret > prev_length) =>
     /\ \E k \in Passes : trace[k].wrote /\ trace[k].cm = match_start
     /\ match_start < strstart
     /\ \A i \in 0..(ret - 1) :
          window[match_start + i] = window[strstart + i]

\* a call that returned a match of three bytes or more, found on the second
\* candidate or later
WitC2 ==
  /\ pc = "done" /\ prev_length >= 1 /\ HashOK /\ ret > prev_length
  /\ ret >= 3 /\ Len(trace) >= 2 /\ trace[Len(trace)].wrote

\* C3: in std1, with prev_length >= 1 and the hash guarantee, a walk that
\* ended with the chain (not by the budget, nice_match or the low-level stop)
\* returns min(lookahead, max(prev_length, M)), M the longest common prefix,
\* capped at MAX_MATCH, of strstart and any candidate the walk reached.
LongestReached == Max({0} \cup {NaiveLen(trace[k].cm) : k \in Passes})
InvC3 ==
  (pc = "done" /\ prev_length >= 1 /\ HashOK /\ exit \in {"limit", "future"})
    => ret = Min({lookahead, Max({prev_length, LongestReached})})

\* a walk that ended with the chain, the best candidate met after a shorter
\* one that had improved on prev_length too
WitC3 ==
  /\ pc = "done" /\ prev_length >= 1 /\ HashOK /\ exit = "limit"
  /\ \E j, k \in Passes : j < k /\ trace[j].wrote /\ trace[k].wrote
  /\ ret > prev_length

LastWrite == Max({0} \cup {k \in Passes : trace[k].wrote})
InvC5 ==
  /\ \A k \in Passes : trace[k].wrote =>
       /\ trace[k].len > trace[k].best
       /\ \A j \in 1..(k - 1) :
            /\ trace[j].len < trace[k].len
            /\ HashOK => NaiveLen(trace[j].cm) < NaiveLen(trace[k].cm)
  /\ LastWrite # 0 => match_start = trace[LastWrite].cm

\* two candidates at different distances with the same match length, the
\* first one recorded and the second one compared in full after it
WitC5 ==
  /\ pc = "done"
  /\ \E j, k \in Passes :
       /\ j < k /\ trace[j].cm # trace[k].cm
       /\ trace[j].wrote /\ Compared(k)
       /\ trace[k].len = trace[j].len
       /\ match_start = trace[j].cm

\* C6 as stated: a candidate whose match length is at least the effective
\* nice_match is returned in match_start and is the last one looked at.
CexC6 ==
  Pre =>
    \A k \in Passes : (Compared(k) /\ trace[k].len >= nice_match) =>
       (k = Len(trace) /\ pc = "done" /\ match_start = trace[k].cm)

\* C6, amended: a candidate whose match length is above the best length held
\* and at least the effective nice_match is returned in match_start and is
\* the last one looked at.
InvC6 ==
  \A k \in Passes :
    (Compared(k) /\ trace[k].len > trace[k].best /\ trace[k].len >= nice_match)
      => (k = Len(trace) /\ pc = "done" /\ exit = "nice"
          /\ match_start = trace[k].cm)

\* the walk stopped on a nice match although the next entry of the chain is
\* in range, within the budget, and longer
WitC6 ==
  /\ pc = "done" /\ exit = "nice"
  /\ LET next == prev[And(cur_match, w_mask)] IN
       /\ InRange(next, limit) /\ next < strstart
       /\ BudgetLeft(chain_length)
       /\ NaiveLen(next) > trace[Len(trace)].len

Dist(c) == strstart - c

\* C7 as stated, for an entry a link leads to: in a call that satisfies the
\* preconditions, with strstart beyond MAX_DIST, the entry on which the limit
\* test ends the walk is farther than MAX_DIST (one at exactly MAX_DIST would
\* have been compared).
CexC7 ==
  (pc = "done" /\ exit = "limit" /\ strstart > max_dist /\ Pre /\ ChainOK)
    => Dist(cur_match) > max_dist

\* C7, amended: the head of a call that satisfies the preconditions is
\* compared at any distance up to MAX_DIST, MAX_DIST included; an entry a link
\* leads to is compared only at a distance below MAX_DIST.  The limit test
\* ends the walk on an entry at MAX_DIST or farther, so no entry farther than
\* MAX_DIST is compared or recorded.
InvC7 ==
  /\ \A k \in Passes :
       /\ (k = 1 /\ Pre) => Dist(trace[k].cm) <= max_dist
       /\ k >= 2 => Dist(trace[k].cm) < max_dist
  /\ (pc = "done" /\ exit = "limit" /\ strstart > max_dist)
       => Dist(cur_match) >= max_dist
  /\ (Pre /\ LastWrite # 0) => Dist(match_start) <= max_dist

\* a chain whose head is at MAX_DIST and whose next entry is one byte
\* farther: the head is recorded, the next entry ends the walk
WitC7 ==
  /\ pc = "done" /\ Pre /\ exit = "limit"
  /\ Dist(head_match) = max_dist
  /\ Dist(cur_match) = max_dist + 1
  /\ Len(trace) = 1 /\ trace[1].wrote /\ match_start = head_match

\* the hash guarantee, for every position before strstart
HashAll ==
  \A c \in 0..(strstart - 1) :
    (window[c] = window[strstart] /\ window[c + 1] = window[strstart + 1])
      => window[c + 2] = window[strstart + 2]
Conforming == Pre /\ ChainOK /\ HashAll /\ lookahead >= 1
Returned(r) == <<r.ret, r.match_start>>

\* every word std3 has read lies inside the window
Std3InWindow ==
  /\ strstart + prev_length - 3 >= 0
  /\ \A k \in Passes : trace[k].cm + trace[k].best - 3 >= 0

\* C8: std1, std2 and std3 return the same length and leave the same
\* match_start on every input that satisfies the preconditions (here: on
\* those of them with a full lookahead where std3 reads nothing outside the
\* window).
CexC8 ==
  (variant \in Std3Builds /\ pc = "done" /\ Conforming /\ Std3InWindow
     /\ lookahead >= MIN_LOOKAHEAD) =>
     /\ Returned(results[1]) = Returned(results[2])
     /\ Returned(results[2]) = <<ret, match_start>>

\* std1 and std2 agree on such an input
Std12Agree ==
  (Len(results) >= 2 /\ Conforming) =>
     Returned(results[1]) = Returned(results[2])

\* C9: a call looks at no more than max_chain_length candidates, and at no
\* more than max_chain_length / 4 when the initial best_len >= good_match.
CexC9 ==
  Pre =>
    /\ Len(trace) <= max_chain_length
    /\ InitBestLen(prev_length) >= good_match
         => Len(trace) <= max_chain_length \div 4

\* the first unequal byte of the strings at c and at strstart from offset 3
\* on, capped at MAX_MATCH
NaiveFrom3(c) ==
  IF \A i \in 3..(MAX_MATCH - 1) : window[c + i] = window[strstart + i]
    THEN MAX_MATCH
    ELSE CHOOSE i \in 3..(MAX_MATCH - 1) :
           /\ window[c + i] # window[strstart + i]
           /\ \A j \in 3..(i - 1) : window[c + j] = window[strstart + j]

\* C10 as stated: the len of a compared candidate is the naive count of
\* leading equal bytes from offset 0, capped at MAX_MATCH.
CexC10 ==
  Pre => \A k \in Passes : Compared(k) => trace[k].len = NaiveLen(trace[k].cm)

\* C10, amended: the len of a compared candidate is the count of leading equal
\* bytes with byte 2 taken as equal (the comparison starts at offset 3); it
\* is the naive count from offset 0 when byte 2 of the two strings is equal.
InvC10 ==
  \A k \in Passes : Compared(k) =>
     /\ trace[k].len = NaiveFrom3(trace[k].cm)
     /\ window[trace[k].cm + 2] = window[strstart + 2]
          => trace[k].len = NaiveLen(trace[k].cm)

\* a compared candidate whose string differs from the current one in its
\* last byte only
WitC10 ==
  \E k \in Passes :
    /\ Compared(k)
    /\ window[trace[k].cm + 2] = window[strstart + 2]
    /\ trace[k].len = MAX_MATCH - 1

\* the link of the head does not point forward
HeadLinkBack == prev[And(head_match, w_mask)] <= head_match

\* C11 as stated: when the candidate passed to a call that satisfies the
\* preconditions is already <= limit, no candidate is compared, match_start
\* is not written and the returned length is the initial best_len.
CexC11 ==
  (pc = "done" /\ Pre /\ head_match <= Limit(strstart, max_dist)) =>
     /\ \A k \in Passes : ~Compared(k) /\ ~trace[k].wrote
     /\ ret = InitBestLen(prev_length)

\* C11, amended: a candidate passed to the call that is already <= limit is
\* still looked at, once, before limit is tested: it goes through the cheap
\* rejection and the comparison like any other, and is recorded when longer
\* than the initial best_len.  When the link of the head does not point
\* forward no other candidate is looked at; the call returns the length of
\* the head, clamped to lookahead, when the head was recorded, and
\* min(initial best_len, lookahead) with match_start unwritten when it was
\* not.
InvC11 ==
  (pc = "done" /\ head_match <= Limit(strstart, max_dist)) =>
     /\ Len(trace) >= 1 /\ trace[1].cm = head_match
     /\ trace[1].best = InitBestLen(prev_length)
     /\ trace[1].wrote <=> (Compared(1) /\ trace[1].len > trace[1].best)
     /\ HeadLinkBack =>
          /\ Len(trace) = 1
          /\ trace[1].wrote =>
               /\ match_start = head_match
               /\ ret = Min({trace[1].len, lookahead})
          /\ ~trace[1].wrote =>
               /\ match_start = 0
               /\ ret = Min({InitBestLen(prev_length), lookahead})

\* a head farther than MAX_DIST, compared and recorded, the call returning
\* more than the initial best_len
WitC11 ==
  /\ pc = "done" /\ HeadLinkBack
  /\ head_match < Limit(strstart, max_dist)
  /\ Compared(1) /\ trace[1].wrote /\ match_start = head_match
  /\ ret > InitBestLen(prev_length)

\* the last pass of a walk that has ended
Last == Len(trace)
NoBetter(k) == Compared(k) /\ ~trace[k].wrote
\* the walk went on to the loop condition: it ended there, the next entry out
\* of range or the budget used up, or with the next entry, not before strstart
EndedByChain ==
  \/ exit = "limit" /\ ~InRange(cur_match, limit)
  \/ exit = "budget" /\ ~NonZero(chain_length)
  \/ exit = "future" /\ cur_match >= strstart

\* C12: in std1 and std2, at level < TRIGGER_LEVEL the walk ends at the first
\* candidate compared in full and found not longer than best_len; a candidate
\* the cheap rejection passes over does not end the walk, and at level >=
\* TRIGGER_LEVEL a candidate that is not longer does not either: after such a
\* candidate the walk ends only on the loop condition or at a later entry.
InvC12 ==
  variant \in {"std1", "std2"} =>
    /\ \A k \in Passes :
         /\ (NoBetter(k) /\ level < TRIGGER_LEVEL)
              => (k = Last /\ pc = "done" /\ exit = "low")
         /\ NoBetter(k) => trace[k].len <= trace[k].best
    /\ exit = "low"
         => (level < TRIGGER_LEVEL /\ Last >= 1 /\ NoBetter(Last))
    /\ (pc = "done" /\ Last >= 1 /\ ~Compared(Last)) => EndedByChain
    /\ (pc = "done" /\ Last >= 1 /\ NoBetter(Last)
          /\ level >= TRIGGER_LEVEL) => EndedByChain

\* std2 at a low level: the first candidate passed over by the cheap
\* rejection, the walk going on to the second, which is compared, found not
\* longer and ends the walk although the next entry is in range and within
\* the budget
WitC12 ==
  /\ variant = "std2" /\ pc = "done" /\ exit = "low"
  /\ Last = 2 /\ ~Compared(1) /\ NoBetter(2)
  /\ InRange(prev[And(cur_match, w_mask)], limit)
  /\ BudgetLeft(chain_length)

\* C13 (std1): when strstart <= window_size - MIN_LOOKAHEAD and
\* 1 <= prev_length <= MAX_MATCH, every window index the call reads (at the
\* set-up, in the cheap rejection, in the comparison, after an improvement)
\* lies in 0..strstart + MAX_MATCH, which is below window_size, whatever the
\* chain holds; scan never passes strstart + MAX_MATCH, so that the "wild
\* scan" assertion of line 134 holds at every candidate compared.
ReadPre ==
  /\ strstart <= WindowSize - MIN_LOOKAHEAD
  /\ prev_length >= 1 /\ prev_length <= MAX_MATCH
ReadOK(S) == \A i \in S : i >= 0 /\ i <= strstart + MAX_MATCH
\* a pass is about to run on cur_match
AtCandidate == pc = "loop" /\ variant = "std1" /\ cur_match < strstart
InvC13 ==
  (variant = "std1" /\ ReadPre) =>
    /\ strstart + MAX_MATCH < WindowSize
    /\ pc = "call" => ReadOK(Std1SetupReads)
    /\ AtCandidate => ReadOK(Std1PassReads(cur_match, best_len))
    /\ (AtCandidate /\ ~Std1Rejects(cur_match, best_len)) =>
         /\ Std1ScanEnd(cur_match) <= strstart + MAX_MATCH
         /\ Std1ScanEnd(cur_match) <= WindowSize - 1
\* at the largest strstart and the largest prev_length, after a first
\* candidate was passed over, a candidate is compared up to strstart + MAX_MATCH
WitC13 ==
  /\ AtCandidate /\ ReadPre /\ Len(trace) >= 1
  /\ strstart = WindowSize - MIN_LOOKAHEAD /\ prev_length = MAX_MATCH
  /\ ~Std1Rejects(cur_match, best_len)
  /\ Std1ScanEnd(cur_match) = strstart + MAX_MATCH
  /\ strstart + MAX_MATCH \in Std1PassReads(cur_match, best_len)

====
